---- MODULE Spec2Model ----
(***************************************************************************)
(* Model of the audience-builder scripts:                                  *)
(*   scripts/process_request.py           (search_ai_arc_people,           *)
(*                                          save_to_csv,                   *)
(*                                          process_request_file)          *)
(*   lookalike-finder/lookalike_finder.py (find_companies_by_icp,          *)
(*                                          find_people_at_company,        *)
(*                                          extract_company,               *)
(*                                          extract_person, run_search)    *)
(* Every script is a single-threaded batch job, so each call of an entry   *)
(* point is one atomic action whose inputs (the request file, the remote   *)
(* API's answers, the iteration order of a Python set) are drawn from      *)
(* small sets.                                                             *)
(* Line 38 of process_request.py (`headers = {`) is read at the            *)
(* indentation of the body of search_ai_arc_people, to which it belongs.   *)
(***************************************************************************)
EXTENDS Integers, Sequences, FiniteSets, TLC

VARIABLES
    script,     \* the entry point this run exercises: "csv", "request", "lookalike"
    leads,      \* save_to_csv: the `leads` argument of the call
    csv,        \* save_to_csv: outcome of the call (file written, value returned)
    apiKey,     \* process_request.py: whether AI_ARC_API_KEY is set
    requestFile,\* process_request.py: the request file on disk
    resultsDir, \* process_request.py: the files of results/
    calls,      \* process_request.py: what each process_request_file call did
    run,        \* lookalike_finder.py: outcome of the run_search call
    now         \* the clock datetime.now() reads

vars == <<script, leads, csv, apiKey, requestFile, resultsDir, calls, run, now>>

-----------------------------------------------------------------------------
(* Bounds of the model *)

MaxLeads == 2       \* longest list an API answers with / save_to_csv is given
MaxKeys == 2        \* most keys of one record
MaxCalls == 3       \* calls of process_request_file on the request file
MaxCompanies == 2   \* longest list the company endpoint answers with

-----------------------------------------------------------------------------
(* Generic helpers *)

Range(s) == {s[i] : i \in 1..Len(s)}

InjSeqs(S, n) == {s \in UNION {[1..m -> S] : m \in 0..n} :
                    \A i, j \in 1..Len(s) : i # j => s[i] # s[j]}

SeqsUpTo(S, n) == UNION {[1..m -> S] : m \in 0..n}

\* Python compares str values code point by code point; the code points of
\* the field names the model uses.
CodePoints(k) ==
    CASE k = "name"     -> <<110, 97, 109, 101>>
      [] k = "location" -> <<108, 111, 99, 97, 116, 105, 111, 110>>
      [] k = "zip"      -> <<122, 105, 112>>
      [] k = "age"      -> <<97, 103, 101>>
      [] k = "total"    -> <<116, 111, 116, 97, 108>>

RECURSIVE LexLess(_, _)
LexLess(a, b) ==
    IF a = <<>> THEN b # <<>>
    ELSE IF b = <<>> THEN FALSE
    ELSE IF Head(a) # Head(b) THEN Head(a) < Head(b)
    ELSE LexLess(Tail(a), Tail(b))

StrLess(a, b) == LexLess(CodePoints(a), CodePoints(b))

\* sorted(xs) on a list of str: insertion of each element into a sorted prefix
RECURSIVE InsertSorted(_, _)
InsertSorted(x, s) ==
    IF s = <<>> THEN <<x>>
    ELSE IF StrLess(x, Head(s)) THEN <<x>> \o s
    ELSE <<Head(s)>> \o InsertSorted(x, Tail(s))

\* Variant: the list is left in the order it had
Unsorted(xs) == xs

RECURSIVE SortedList(_)
SortedList(xs) ==
    IF xs = <<>> THEN <<>> ELSE InsertSorted(Head(xs), SortedList(Tail(xs)))

-----------------------------------------------------------------------------
(* JSON-decoded (Python) values *)

\* None, int, str, dict and list.  A dict keeps its insertion order: items
\* is the sequence of its <<key, value>> pairs.
NoneValue == [kind |-> "None"]
IntValue(n) == [kind |-> "int", n |-> n]
StrValue(s) == [kind |-> "str", s |-> s]
DictValue(items) == [kind |-> "dict", items |-> items]
ListValue(list) == [kind |-> "list", list |-> list]

IsDict(v) == v.kind = "dict"                                  \* isinstance(v, dict)
IsList(v) == v.kind = "list"                                  \* isinstance(v, list)
KeysOf(d) == {d.items[i][1] : i \in 1..Len(d.items)}          \* d.keys()
HasKey(d, k) == k \in KeysOf(d)                               \* k in d
ValueAt(d, k) == d.items[CHOOSE i \in 1..Len(d.items) : d.items[i][1] = k][2]   \* d[k]
GetOr(d, k, default) == IF HasKey(d, k) THEN ValueAt(d, k) ELSE default          \* d.get(k, default)

\* bool(v)
Truthy(v) ==
    CASE v.kind = "None" -> FALSE
      [] v.kind = "int"  -> v.n # 0
      [] v.kind = "str"  -> v.s # ""
      [] v.kind = "dict" -> v.items # <<>>
      [] v.kind = "list" -> v.list # <<>>

\* {**d, k: v}: the value of an existing key is replaced in place, a new key
\* is appended.
DictSet(d, k, v) ==
    IF HasKey(d, k)
    THEN DictValue([i \in 1..Len(d.items) |->
                      IF d.items[i][1] = k THEN <<k, v>> ELSE d.items[i]])
    ELSE DictValue(Append(d.items, <<k, v>>))

-----------------------------------------------------------------------------
(* The records the remote API answers with *)

\* Field names of the records.  "name" and "location" are priority fields
\* (in that order), "zip" and "age" are not.
Keys == {"name", "location", "zip", "age"}

\* The scalar the API reports under each field.
ScalarOf(k) ==
    CASE k = "name"     -> "Ann"
      [] k = "location" -> "Austin"
      [] k = "zip"      -> "78701"
      [] k = "age"      -> "41"

\* A record with the keys ks in that insertion order.  With nested set, the
\* value under "location" is the mapping {"city": "Austin"}.
MkDict(ks, nested) ==
    DictValue([i \in 1..Len(ks) |->
                 <<ks[i], IF nested /\ ks[i] = "location"
                          THEN DictValue(<<<<"city", StrValue(ScalarOf(ks[i]))>>>>)
                          ELSE StrValue(ScalarOf(ks[i]))>>])

DictLeads ==
    {MkDict(ks, FALSE) : ks \in InjSeqs(Keys, MaxKeys)}
    \cup {MkDict(ks, TRUE) : ks \in {s \in InjSeqs(Keys, MaxKeys) : "location" \in Range(s)}}

\* Entries of a JSON list that are not mappings.
NonDictLeads == {IntValue(7), StrValue("x")}

Leads == DictLeads \cup NonDictLeads
LeadLists == SeqsUpTo(Leads, MaxLeads)

-----------------------------------------------------------------------------
(* Text conversions *)

RECURSIVE Repr(_)
RECURSIVE ReprItems(_)
RECURSIVE ReprList(_)
\* repr(v)
Repr(v) ==
    CASE v.kind = "None" -> "None"
      [] v.kind = "int"  -> ToString(v.n)
      [] v.kind = "str"  -> "'" \o v.s \o "'"
      [] v.kind = "dict" -> "{" \o ReprItems(v.items) \o "}"
      [] v.kind = "list" -> "[" \o ReprList(v.list) \o "]"

ReprList(list) ==
    IF list = <<>> THEN ""
    ELSE Repr(Head(list)) \o (IF Tail(list) = <<>> THEN "" ELSE ", " \o ReprList(Tail(list)))

ReprItems(items) ==
    IF items = <<>> THEN ""
    ELSE "'" \o Head(items)[1] \o "': " \o Repr(Head(items)[2])
         \o (IF Tail(items) = <<>> THEN "" ELSE ", " \o ReprItems(Tail(items)))

\* The text csv.writer puts in a cell: "" for None, the str itself, str(v)
\* for anything else.
Cell(v) ==
    CASE v.kind = "None" -> ""
      [] v.kind = "str"  -> v.s
      [] OTHER           -> Repr(v)

RECURSIVE JsonDumps(_)
RECURSIVE JsonDumpsItems(_)
RECURSIVE JsonDumpsList(_)
\* json.dumps(v)
JsonDumps(v) ==
    CASE v.kind = "None" -> "null"
      [] v.kind = "int"  -> ToString(v.n)
      [] v.kind = "str"  -> "\"" \o v.s \o "\""
      [] v.kind = "dict" -> "{" \o JsonDumpsItems(v.items) \o "}"
      [] v.kind = "list" -> "[" \o JsonDumpsList(v.list) \o "]"

JsonDumpsList(list) ==
    IF list = <<>> THEN ""
    ELSE JsonDumps(Head(list))
         \o (IF Tail(list) = <<>> THEN "" ELSE ", " \o JsonDumpsList(Tail(list)))

JsonDumpsItems(items) ==
    IF items = <<>> THEN ""
    ELSE "\"" \o Head(items)[1] \o "\": " \o JsonDumps(Head(items)[2])
         \o (IF Tail(items) = <<>> THEN "" ELSE ", " \o JsonDumpsItems(Tail(items)))

-----------------------------------------------------------------------------
(* csv.DictWriter *)

NoFile == [exists |-> FALSE, lines |-> <<>>]

\* Variant: a missing key gets no cell at all
DictWriterRowNoRestval(fieldnames, row, extrasaction) ==
    IF ~IsDict(row) THEN [raised |-> TRUE, cells |-> <<>>]
    ELSE [raised |-> FALSE,
          cells  |-> LET present == SelectSeq(fieldnames, LAMBDA f : f \in KeysOf(row))
                     IN  [i \in 1..Len(present) |-> Cell(ValueAt(row, present[i]))]]

\* DictWriter.writerow(row): a row that is no mapping raises; a key outside
\* fieldnames raises unless extrasaction is "ignore"; a missing key is
\* written as restval, the empty string.
DictWriterRow(fieldnames, row, extrasaction) ==
    IF ~IsDict(row) THEN [raised |-> TRUE, cells |-> <<>>]
    ELSE IF extrasaction = "raise" /\ KeysOf(row) \ Range(fieldnames) # {}
         THEN [raised |-> TRUE, cells |-> <<>>]
    ELSE [raised |-> FALSE,
          cells  |-> [i \in 1..Len(fieldnames) |->
                        IF fieldnames[i] \in KeysOf(row)
                        THEN Cell(ValueAt(row, fieldnames[i]))
                        ELSE ""]]

-----------------------------------------------------------------------------
(* process_request.py: save_to_csv *)

priority_fields ==
    <<"first_name", "last_name", "full_name", "name",
      "email", "work_email", "personal_email",
      "phone", "mobile_phone", "direct_phone",
      "title", "job_title", "current_title",
      "company", "company_name", "organization",
      "industry",
      "employee_count", "company_size",
      "location", "city", "state", "country",
      "linkedin", "linkedin_url", "linkedin_profile",
      "website", "company_website", "domain">>

\* The orders in which Python may iterate the set all_fields.
SetOrders == {<<"age", "location", "name", "zip">>, <<"zip", "name", "location", "age">>}

\* The file written for an empty result
SentinelLines ==
    <<<<"status", "message">>,
      <<"no_results",
        "No leads found matching your criteria. Check API response in Actions logs.">>>>

\* all_fields: the keys of every entry that is a dict
AllFields(ls) == UNION {KeysOf(ls[i]) : i \in {j \in 1..Len(ls) : IsDict(ls[j])}}

PriorityPart(all_fields) == SelectSeq(priority_fields, LAMBDA f : f \in all_fields)

RestPart(all_fields, order) ==
    SortedList(SelectSeq(order, LAMBDA f : f \in all_fields /\ f \notin Range(priority_fields)))

\* Variant: fieldnames = list(all_fields)
FieldnamesInSetOrder(all_fields, order) == SelectSeq(order, LAMBDA f : f \in all_fields)

Fieldnames(all_fields, order) == PriorityPart(all_fields) \o RestPart(all_fields, order)

\* {"raw_data": json.dumps(lead)}
RawRow(lead) == DictValue(<<<<"raw_data", StrValue(JsonDumps(lead))>>>>)

\* Variant: a row equal to one already written is dropped
RECURSIVE WriteLeadsDedup(_, _, _)
WriteLeadsDedup(fieldnames, ls, lines) ==
    IF ls = <<>> THEN [raised |-> FALSE, lines |-> lines]
    ELSE IF ~IsDict(Head(ls)) THEN WriteLeadsDedup(fieldnames, Tail(ls), lines)
    ELSE LET w == DictWriterRow(fieldnames, Head(ls), "ignore")
         IN IF w.raised THEN [raised |-> TRUE, lines |-> lines]
            ELSE IF w.cells \in Range(lines) THEN WriteLeadsDedup(fieldnames, Tail(ls), lines)
            ELSE WriteLeadsDedup(fieldnames, Tail(ls), Append(lines, w.cells))

\* Variant: writerow is called on every entry, mapping or not
RECURSIVE WriteLeadsNoTypeCheck(_, _, _)
WriteLeadsNoTypeCheck(fieldnames, ls, lines) ==
    IF ls = <<>> THEN [raised |-> FALSE, lines |-> lines]
    ELSE LET w == DictWriterRow(fieldnames, Head(ls), "ignore")
         IN IF w.raised THEN [raised |-> TRUE, lines |-> lines]
            ELSE WriteLeadsNoTypeCheck(fieldnames, Tail(ls), Append(lines, w.cells))

\* for lead in leads: if isinstance(lead, dict): writer.writerow(lead)
RECURSIVE WriteLeads(_, _, _)
WriteLeads(fieldnames, ls, lines) ==
    IF ls = <<>> THEN [raised |-> FALSE, lines |-> lines]
    ELSE IF ~IsDict(Head(ls)) THEN WriteLeads(fieldnames, Tail(ls), lines)
    ELSE LET w == DictWriterRow(fieldnames, Head(ls), "ignore")
         IN IF w.raised THEN [raised |-> TRUE, lines |-> lines]
            ELSE WriteLeads(fieldnames, Tail(ls), Append(lines, w.cells))

\* The body of save_to_csv after the empty check: the columns, the raw_data
\* fallback, the header and the rows
WriteCsv(ls, order) ==
    LET all_fields == AllFields(ls)
        first      == Fieldnames(all_fields, order)
        fieldnames == IF first = <<>> THEN <<"raw_data">> ELSE first
        rows       == IF first = <<>>
                      THEN [i \in 1..Len(ls) |-> RawRow(ls[i])]
                      ELSE ls
        w          == WriteLeads(fieldnames, rows, <<fieldnames>>)
    IN  [called |-> TRUE, raised |-> w.raised, ret |-> NoneValue,
         file |-> [exists |-> TRUE, lines |-> w.lines]]

\* Variant: no empty check
SaveToCsvNoSentinel(ls, order) == WriteCsv(ls, order)

\* save_to_csv(leads, output_path); `order` is the iteration order of the set
SaveToCsv(ls, order) ==
    IF ls = <<>>
    THEN [called |-> TRUE, raised |-> FALSE, ret |-> NoneValue,
          file |-> [exists |-> TRUE, lines |-> SentinelLines]]
    ELSE WriteCsv(ls, order)

NotCalled == [called |-> FALSE, raised |-> FALSE, ret |-> NoneValue, file |-> NoFile]

-----------------------------------------------------------------------------
(* The remote API's answers *)

Undecodable == [kind |-> "undecodable"]            \* a body response.json() rejects

\* Records of the answers the scripts are run against
SearchLeads == {MkDict(<<"name">>, FALSE), MkDict(<<>>, FALSE), IntValue(7)}
SearchLists == SeqsUpTo(SearchLeads, MaxLeads)

\* Keys of a JSON object body, in the order the model writes them
BodyKeys == <<"data", "results", "people", "contacts", "total">>

\* Values found under a key of an object body
BodyPayloads ==
    {NoneValue, ListValue(<<>>), ListValue(<<MkDict(<<"name">>, FALSE)>>),
     DictValue(<<<<"total", IntValue(0)>>>>)}

\* Object bodies with at most two keys
ObjectBodies ==
    {DictValue(<<>>)}
    \cup {DictValue(<<<<BodyKeys[i], v>>>>) : i \in 1..Len(BodyKeys), v \in BodyPayloads}
    \cup {DictValue(<<<<BodyKeys[ij[1]], vw[1]>>, <<BodyKeys[ij[2]], vw[2]>>>>) :
            ij \in {x \in (1..Len(BodyKeys)) \X (1..Len(BodyKeys)) : x[1] < x[2]},
            vw \in BodyPayloads \X BodyPayloads}

JsonBodies ==
    {ListValue(l) : l \in SearchLists} \cup ObjectBodies
    \cup {NoneValue, IntValue(7), StrValue("x")}

\* An answer: the transport fails, or a response arrives with a status code
\* and a body.
TransportError == [kind |-> "error"]
Response(status, body) == [kind |-> "response", status |-> status, json |-> body]

Responses ==
    {TransportError}
    \cup {Response(st, Undecodable) : st \in {200, 401, 500}}
    \cup {Response(200, b) : b \in JsonBodies}

\* `k in data` for a decoded body: a key test on a dict, a substring test on
\* a str (no str body of the model contains a key), a TypeError otherwise.
InRaises(data) == data.kind \in {"None", "int"}
In(k, data) ==
    CASE data.kind = "dict" -> HasKey(data, k)
      [] data.kind = "list" -> \E i \in 1..Len(data.list) : data.list[i] = StrValue(k)
      [] data.kind = "str"  -> data.s = k

-----------------------------------------------------------------------------
(* process_request.py: search_ai_arc_people *)

EmptyList == ListValue(<<>>)

\* The chain of `in data` tests on a decoded body that is not a list; any
\* exception is caught and answered with [].
AiArcFromBody(data) ==
    IF InRaises(data) THEN EmptyList
    ELSE IF In("data", data) THEN ValueAt(data, "data")
    ELSE IF In("results", data) THEN ValueAt(data, "results")
    ELSE IF In("people", data) THEN ValueAt(data, "people")
    ELSE IF In("contacts", data) THEN ValueAt(data, "contacts")
    ELSE IF Truthy(data) THEN ListValue(<<data>>) ELSE EmptyList

\* search_ai_arc_people(filters, limit): the value returned, given whether
\* AI_ARC_API_KEY is set and what the endpoint answers
SearchAiArcPeople(key, resp) ==
    IF ~key THEN EmptyList
    ELSE IF resp.kind = "error" THEN EmptyList
    ELSE IF resp.status # 200 THEN EmptyList               \* raise_for_status()
    ELSE IF resp.json = Undecodable THEN EmptyList         \* response.json() raises
    ELSE IF IsList(resp.json) THEN resp.json
    ELSE AiArcFromBody(resp.json)

-----------------------------------------------------------------------------
(* process_request.py: process_request_file *)

\* Path(name).stem
Stem(name) ==
    CASE name = "req.json"       -> "req"
      [] name = "_template.json" -> "_template"

\* name.startswith("_")
StartsWithUnderscore(name) == name = "_template.json"

\* datetime.now() rendered as text
Timestamp(t) == "T" \o ToString(t)

\* len(v) raises TypeError for None and int
LenRaises(v) == v.kind \in {"None", "int"}
PyLen(v) ==
    CASE v.kind = "list" -> Len(v.list)
      [] v.kind = "dict" -> Len(v.items)

\* The entries a `for` loop over v visits: the elements of a list, the keys
\* of a dict
Entries(v) ==
    CASE v.kind = "list" -> v.list
      [] v.kind = "dict" -> [i \in 1..Len(v.items) |-> StrValue(v.items[i][1])]

\* The request files the script is pointed at
RequestContents ==
    {DictValue(src \o aud \o <<<<"limit", IntValue(10)>>>> \o done) :
        src  \in {<<>>, <<<<"source", StrValue("ai_arc")>>>>, <<<<"source", StrValue("clay")>>>>},
        aud  \in {<<>>, <<<<"audience_name", StrValue("cfo")>>>>},
        done \in {<<>>, <<<<"processed_at", StrValue("T0")>>>>}}

MissingFile == [exists |-> FALSE, name |-> "req.json", content |-> DictValue(<<>>)]

RequestFiles ==
    {MissingFile}
    \cup {[exists |-> TRUE, name |-> "req.json", content |-> c] : c \in RequestContents}
    \cup {[exists |-> TRUE, name |-> "_template.json", content |-> c] :
            c \in {DictValue(<<<<"limit", IntValue(10)>>>>)}}

\* What one call did
CallRecord(outcome, searched, results, wrote, marked) ==
    [outcome |-> outcome, searched |-> searched, results |-> results,
     wrote |-> wrote, marked |-> marked]

\* Variant: the mark is never looked at
NeverProcessed(request) == FALSE

\* if "processed_at" in request
AlreadyProcessed(request) == HasKey(request, "processed_at")

\* process_request_file(request_path) on the request file `file` with the
\* results directory `dir` at time t; resp is the endpoint's answer and
\* order the set iteration order inside save_to_csv.
RunProcessRequestFile(file, dir, key, resp, order, t) ==
    LET same(outcome, searched, res) ==
            [file |-> file, dir |-> dir,
             call |-> CallRecord(outcome, searched, res, FALSE, FALSE)]
        request == file.content
    IN  IF ~file.exists THEN same("not_found", FALSE, EmptyList)
        ELSE IF StartsWithUnderscore(file.name) THEN same("template", FALSE, EmptyList)
        ELSE IF AlreadyProcessed(request) THEN same("already_processed", FALSE, EmptyList)
        ELSE IF GetOr(request, "source", StrValue("ai_arc")) # StrValue("ai_arc")
             THEN same("unknown_source", FALSE, EmptyList)
        ELSE LET results       == SearchAiArcPeople(key, resp)
                 audience_name == GetOr(request, "audience_name", StrValue(Stem(file.name)))
                 output_path   == "results/" \o audience_name.s \o "-" \o Timestamp(t) \o ".csv"
             IN  IF LenRaises(results) THEN same("raised", TRUE, results)
                 ELSE LET saved == SaveToCsv(Entries(results), order)
                          processed ==
                              DictSet(DictSet(DictSet(request,
                                  "processed_at", StrValue(Timestamp(t))),
                                  "result_file", StrValue(output_path)),
                                  "result_count", IntValue(PyLen(results)))
                          written == {f \in dir : f.path # output_path}
                                     \cup {[path |-> output_path, lines |-> saved.file.lines]}
                      IN  IF saved.raised
                          THEN [file |-> file, dir |-> written,
                                call |-> CallRecord("raised", TRUE, results, TRUE, FALSE)]
                          ELSE [file |-> [file EXCEPT !.content = processed],
                                dir  |-> written,
                                call |-> CallRecord("done", TRUE, results, TRUE, TRUE)]

-----------------------------------------------------------------------------
(* lookalike_finder.py: the DiscoLike and AI Ark answers *)

DEFAULT_COMPANY_LIMIT == 100

Acme ==
    DictValue(<<<<"name", StrValue("Acme")>>, <<"domain", StrValue("acme.com")>>,
                <<"employees", IntValue(40)>>,
                <<"address", DictValue(<<<<"city", StrValue("Austin")>>,
                                         <<"state", StrValue("TX")>>>>)>>,
                <<"social_urls", ListValue(<<StrValue("https://x.com/acme"),
                                             StrValue("https://www.LinkedIn.com/company/acme")>>)>>>>)
Beta == DictValue(<<<<"name", StrValue("Beta")>>>>)          \* no domain
Gamma ==
    DictValue(<<<<"domain", StrValue("gamma.io")>>, <<"address", NoneValue>>,
                <<"social_urls", NoneValue>>>>)

CompanyEntries == {Acme, Beta, Gamma, IntValue(7)}
CompanyLists == SeqsUpTo(CompanyEntries, MaxCompanies)

CompanyResponses ==
    {TransportError}
    \cup {Response(st, Undecodable) : st \in {200, 401, 500}}
    \cup {Response(200, ListValue(l)) : l \in CompanyLists}
    \cup {Response(200, DictValue(<<<<"results", ListValue(<<Acme>>)>>>>))}

Ann == DictValue(<<<<"name", StrValue("Ann Lee")>>, <<"title", StrValue("CEO")>>,
                   <<"linkedin_url", StrValue("https://linkedin.com/in/ann")>>>>)
Bo == DictValue(<<<<"first_name", StrValue("Bo")>>, <<"last_name", StrValue("Chen")>>,
                  <<"job_title", StrValue("VP")>>>>)
Cher == DictValue(<<<<"full_name", StrValue("Cher")>>>>)

PeopleBodies ==
    {ListValue(<<Ann>>), DictValue(<<>>),
     DictValue(<<<<"results", ListValue(<<Ann, Bo>>)>>>>),
     DictValue(<<<<"people", ListValue(<<Cher>>)>>, <<"data", ListValue(<<Bo>>)>>>>),
     DictValue(<<<<"data", ListValue(<<>>)>>>>),
     DictValue(<<<<"results", NoneValue>>, <<"people", ListValue(<<Ann>>)>>>>),
     DictValue(<<<<"data", DictValue(<<<<"total", IntValue(0)>>>>)>>>>)}

PeopleResponses ==
    {TransportError, Response(500, Undecodable), Response(200, Undecodable)}
    \cup {Response(200, b) : b \in PeopleBodies}

\* companies[:limit]
Take(list, n) ==
    IF n >= 0 THEN SubSeq(list, 1, IF n < Len(list) THEN n ELSE Len(list))
    ELSE SubSeq(list, 1, IF Len(list) + n > 0 THEN Len(list) + n ELSE 0)

\* find_companies_by_icp(icp_text, limit)
FindCompaniesByIcp(resp, limit) ==
    IF resp.kind = "error" THEN EmptyList
    ELSE IF resp.status # 200 THEN EmptyList
    ELSE IF resp.json = Undecodable THEN EmptyList
    ELSE IF IsList(resp.json) /\ Truthy(resp.json)
         THEN ListValue(Take(resp.json.list, limit))
    ELSE EmptyList

\* find_people_at_company(domain): any exception is swallowed and answered
\* with []; data.get on a body that is no dict is one.
FindPeopleAtCompany(resp) ==
    IF resp.kind = "error" THEN EmptyList
    ELSE IF resp.status # 200 THEN EmptyList
    ELSE IF resp.json = Undecodable THEN EmptyList
    ELSE IF ~IsDict(resp.json) THEN EmptyList
    ELSE GetOr(resp.json, "results",
               GetOr(resp.json, "people", GetOr(resp.json, "data", EmptyList)))

-----------------------------------------------------------------------------
(* lookalike_finder.py: extract_company, extract_person *)

\* "linkedin.com" in str(url).lower(), for the URLs of the model
IsLinkedin(url) == url = StrValue("https://www.LinkedIn.com/company/acme")

\* the first truthy linkedin URL of social_urls, "" when there is none
RECURSIVE FirstLinkedin(_)
FirstLinkedin(urls) ==
    IF urls = <<>> THEN StrValue("")
    ELSE IF Truthy(Head(urls)) /\ IsLinkedin(Head(urls)) THEN Head(urls)
    ELSE FirstLinkedin(Tail(urls))

\* x or default
Or(x, default) == IF Truthy(x) THEN x ELSE default

\* extract_company(company), for a company that is a dict
ExtractCompany(company) ==
    LET address     == Or(GetOr(company, "address", DictValue(<<>>)), DictValue(<<>>))
        social_urls == Or(GetOr(company, "social_urls", EmptyList), EmptyList)
        linkedin    == IF IsList(social_urls) THEN FirstLinkedin(social_urls.list)
                       ELSE StrValue("")
    IN  DictValue(<<<<"company_name", GetOr(company, "name", StrValue(""))>>,
                    <<"company_domain", GetOr(company, "domain", StrValue(""))>>,
                    <<"company_linkedin", linkedin>>,
                    <<"employees", GetOr(company, "employees", StrValue(""))>>,
                    <<"city", GetOr(address, "city", StrValue(""))>>,
                    <<"state", GetOr(address, "state", StrValue(""))>>>>)

\* full_name.split(" ", 1), for the names of the model
Split1(name) ==
    CASE name = "Ann Lee" -> <<"Ann", "Lee">>
      [] name = "Cher"    -> <<"Cher">>

\* extract_person(person), for a person that is a dict
ExtractPerson(person) ==
    LET full_name == GetOr(person, "name", GetOr(person, "full_name", StrValue("")))
        first     == GetOr(person, "first_name", StrValue(""))
        last      == GetOr(person, "last_name", StrValue(""))
        split     == Truthy(full_name) /\ ~Truthy(first)
        parts     == Split1(full_name.s)
    IN  DictValue(<<<<"first_name", IF split THEN StrValue(parts[1]) ELSE first>>,
                    <<"last_name", IF split
                                   THEN (IF Len(parts) > 1 THEN StrValue(parts[2]) ELSE StrValue(""))
                                   ELSE last>>,
                    <<"title", GetOr(person, "title", GetOr(person, "job_title", StrValue("")))>>,
                    <<"person_linkedin",
                      GetOr(person, "linkedin_url", GetOr(person, "linkedin", StrValue("")))>>>>)

-----------------------------------------------------------------------------
(* lookalike_finder.py: run_search *)

\* {**a, **b}
RECURSIVE Merge(_, _)
Merge(a, b) ==
    IF b.items = <<>> THEN a
    ELSE Merge(DictSet(a, Head(b.items)[1], Head(b.items)[2]), DictValue(Tail(b.items)))

NoPerson ==
    DictValue(<<<<"first_name", StrValue("")>>, <<"last_name", StrValue("")>>,
                <<"title", StrValue("")>>, <<"person_linkedin", StrValue("")>>>>)

\* for person in people: results.append({**info, **extract_person(person)})
RECURSIVE PersonRows(_, _)
PersonRows(info, people) ==
    IF people = <<>> THEN [raised |-> FALSE, rows |-> <<>>]
    ELSE IF ~IsDict(Head(people)) THEN [raised |-> TRUE, rows |-> <<>>]
    ELSE LET rest == PersonRows(info, Tail(people))
         IN  [raised |-> rest.raised,
              rows   |-> <<Merge(info, ExtractPerson(Head(people)))>> \o rest.rows]

\* The loop over companies; answers[i] is what the people endpoint answers
\* for the i-th company.  Yields the rows appended to results, the values
\* find_people_at_company returned, and whether an exception escaped.
RECURSIVE Enrich(_, _, _, _)
Enrich(companies, i, answers, skip_people) ==
    IF i > Len(companies) THEN [raised |-> FALSE, rows |-> <<>>, found |-> <<>>]
    ELSE IF ~IsDict(companies[i]) THEN [raised |-> TRUE, rows |-> <<>>, found |-> <<>>]
    ELSE
    LET info == ExtractCompany(companies[i])
        rest == Enrich(companies, i + 1, answers, skip_people)
        more(rows, found) == [raised |-> rest.raised, rows |-> rows \o rest.rows,
                              found |-> found \o rest.found]
    IN  IF skip_people THEN more(<<Merge(info, NoPerson)>>, <<>>)
        ELSE IF ~Truthy(ValueAt(info, "company_domain")) THEN more(<<>>, <<>>)
        ELSE LET people == FindPeopleAtCompany(answers[i])
             IN  IF ~Truthy(people) THEN more(<<Merge(info, NoPerson)>>, <<people>>)
                 ELSE LET pr == PersonRows(info, Entries(people))
                      IN  IF pr.raised
                          THEN [raised |-> TRUE, rows |-> <<>>, found |-> <<people>>]
                          ELSE more(pr.rows, <<people>>)

lookalike_fieldnames ==
    <<"company_name", "company_domain", "company_linkedin",
      "employees", "city", "state",
      "first_name", "last_name", "title", "person_linkedin">>

\* {k: v for k, v in row.items() if k in fieldnames}
FilterKeys(row, fieldnames) ==
    DictValue(SelectSeq(row.items, LAMBDA kv : kv[1] \in Range(fieldnames)))

\* for row in results: writer.writerow({...})
RECURSIVE WriteResults(_, _, _)
WriteResults(fieldnames, rows, lines) ==
    IF rows = <<>> THEN [raised |-> FALSE, lines |-> lines]
    ELSE LET w == DictWriterRow(fieldnames, FilterKeys(Head(rows), fieldnames), "raise")
         IN  IF w.raised THEN [raised |-> TRUE, lines |-> lines]
             ELSE WriteResults(fieldnames, Tail(rows), Append(lines, w.cells))

NotRun ==
    [called |-> FALSE, raised |-> FALSE, ret |-> "", companies |-> EmptyList,
     found |-> <<>>, results |-> <<>>, file |-> NoFile]

\* run_search(icp_text, limit, skip_people) at time t
RunSearch(resp, limit, skip_people, answers, t) ==
    LET companies == FindCompaniesByIcp(resp, limit)
        base      == [NotRun EXCEPT !.called = TRUE, !.companies = companies]
    IN  IF ~Truthy(companies) THEN base
        ELSE LET e == Enrich(companies.list, 1, answers, skip_people)
                 w == WriteResults(lookalike_fieldnames, e.rows, <<lookalike_fieldnames>>)
             IN  IF e.raised THEN [base EXCEPT !.raised = TRUE, !.found = e.found]
                 ELSE [base EXCEPT !.raised = w.raised,
                                   !.found = e.found,
                                   !.results = e.rows,
                                   !.file = [exists |-> TRUE, lines |-> w.lines],
                                   !.ret = IF w.raised THEN ""
                                           ELSE "lookalikes_" \o Timestamp(t) \o ".csv"]

-----------------------------------------------------------------------------
(* Entry points *)

CallSaveToCsv ==
    /\ script = "csv"
    /\ ~csv.called
    /\ \E order \in SetOrders : csv' = SaveToCsv(leads, order)
    /\ UNCHANGED <<script, leads, apiKey, requestFile, resultsDir, calls, run, now>>

ProcessRequestFile ==
    /\ script = "request"
    /\ Len(calls) < MaxCalls
    /\ \E resp \in Responses, order \in SetOrders :
          LET r == RunProcessRequestFile(requestFile, resultsDir, apiKey, resp, order, now)
          IN  /\ requestFile' = r.file
              /\ resultsDir' = r.dir
              /\ calls' = Append(calls, r.call)
    /\ now' = now + 1
    /\ UNCHANGED <<script, leads, csv, apiKey, run>>

InitCsv ==
    /\ script = "csv"
    /\ leads \in LeadLists
    /\ csv = NotCalled
    /\ apiKey = FALSE
    /\ requestFile = MissingFile
    /\ resultsDir = {}
    /\ calls = <<>>
    /\ run = NotRun
    /\ now = 1

InitRequest ==
    /\ script = "request"
    /\ leads = <<>>
    /\ csv = NotCalled
    /\ apiKey \in BOOLEAN
    /\ requestFile \in RequestFiles
    /\ resultsDir = {}
    /\ calls = <<>>
    /\ run = NotRun
    /\ now = 1

CallRunSearch ==
    /\ script = "lookalike"
    /\ ~run.called
    /\ \E resp \in CompanyResponses, limit \in {1, DEFAULT_COMPANY_LIMIT},
          skip_people \in BOOLEAN, answers \in [1..MaxCompanies -> PeopleResponses] :
          run' = RunSearch(resp, limit, skip_people, answers, now)
    /\ now' = now + 1
    /\ UNCHANGED <<script, leads, csv, apiKey, requestFile, resultsDir, calls>>

InitLookalike ==
    /\ script = "lookalike"
    /\ leads = <<>>
    /\ csv = NotCalled
    /\ apiKey = FALSE
    /\ requestFile = MissingFile
    /\ resultsDir = {}
    /\ calls = <<>>
    /\ run = NotRun
    /\ now = 1

Init == InitCsv \/ InitRequest \/ InitLookalike

Next == CallSaveToCsv \/ ProcessRequestFile \/ CallRunSearch

Spec == Init /\ [][Next]_vars

-----------------------------------------------------------------------------
(* Vocabulary of the properties *)

Header == csv.file.lines[1]
DataRows == Tail(csv.file.lines)

\* save_to_csv has run on a non-empty list whose entries are all mappings
ExportedRecords ==
    /\ script = "csv"
    /\ csv.called
    /\ leads # <<>>
    /\ \A i \in 1..Len(leads) : IsDict(leads[i])

\* The union of the records' keys
UnionOfKeys == {k \in Keys : \E i \in 1..Len(leads) : IsDict(leads[i]) /\ HasKey(leads[i], k)}

PriorityIndex(f) == CHOOSE i \in 1..Len(priority_fields) : priority_fields[i] = f
IsPriority(f) == \E i \in 1..Len(priority_fields) : priority_fields[i] = f

\* h lists exactly the fields of U, each once: the priority fields first, in
\* the order of the priority list, then the others in ascending order.
IsOrderedHeader(h, U) ==
    /\ Range(h) = U
    /\ Len(h) = Cardinality(U)
    /\ \A i, j \in 1..Len(h) :
          i < j =>
            /\ IsPriority(h[j]) => IsPriority(h[i])
            /\ IsPriority(h[i]) /\ IsPriority(h[j])
                  => PriorityIndex(h[i]) < PriorityIndex(h[j])
            /\ ~IsPriority(h[i]) /\ ~IsPriority(h[j]) => StrLess(h[i], h[j])

\* The cells of the row of record rec under the header h
RowText(h, rec) ==
    [j \in 1..Len(h) |-> IF HasKey(rec, h[j]) THEN Cell(ValueAt(rec, h[j])) ELSE ""]

OnlyDicts(ls) == SelectSeq(ls, IsDict)

Reverse(q) == [i \in 1..Len(q) |-> q[Len(q) + 1 - i]]

\* One record holding every field of U, keys in ascending order
CanonicalRecord(U) ==
    MkDict(SelectSeq(<<"age", "location", "name", "zip">>, LAMBDA k : k \in U), FALSE)

-----------------------------------------------------------------------------
(* C1 *)

C2_HeaderOrder == ExportedRecords => IsOrderedHeader(Header, UnionOfKeys)

\* C2 amended: that holds whenever some record has a key; when no record has
\* any key the header is the single column raw_data.
C2_HeaderOrderOrRaw ==
    ExportedRecords =>
        IF UnionOfKeys # {} THEN IsOrderedHeader(Header, UnionOfKeys)
        ELSE Header = <<"raw_data">>

C2_Witness ==
    /\ ExportedRecords
    /\ Len(leads) = 2
    /\ KeysOf(leads[1]) = {"zip", "location"}
    /\ KeysOf(leads[2]) = {"age", "name"}
    /\ leads[1].items[1][1] = "zip"
    /\ leads[2].items[1][1] = "age"
    /\ Header = <<"name", "location", "age", "zip">>

(* C3 *)

\* C3: the header depends only on the set of field names: whatever the
\* order of the records, of the keys inside them and of the set iteration,
\* it is the header written for the one record that holds exactly the union
\* of the keys, under every iteration order.
C3_HeaderOfFieldSet ==
    ExportedRecords =>
        \A order \in SetOrders :
            /\ SaveToCsv(<<CanonicalRecord(UnionOfKeys)>>, order).file.lines[1] = Header
            /\ SaveToCsv(Reverse(leads), order).file.lines[1] = Header

C3_Witness ==
    /\ ExportedRecords
    /\ Len(leads) = 2
    /\ KeysOf(leads[1]) = {"zip", "name"}
    /\ KeysOf(leads[2]) = {"age", "location"}
    /\ leads[1].items[1][1] = "zip"
    /\ Header = <<"name", "location", "age", "zip">>

(* C4 *)

\* C4: n records in, n data rows out, the i-th row built from the i-th
\* record, in save_to_csv and in the CSV step of run_search.
C4_RowOrderPreserved ==
    /\ ExportedRecords =>
          /\ ~csv.raised
          /\ Len(DataRows) = Len(leads)
          /\ \A i \in 1..Len(leads) :
                DataRows[i] = IF UnionOfKeys = {} THEN <<JsonDumps(leads[i])>>
                              ELSE RowText(Header, leads[i])
    /\ (script = "lookalike" /\ run.called /\ run.file.exists) =>
          /\ ~run.raised
          /\ Len(run.file.lines) = 1 + Len(run.results)
          /\ \A i \in 1..Len(run.results) :
                run.file.lines[i + 1] = RowText(run.file.lines[1], run.results[i])

C4_Witness ==
    /\ ExportedRecords
    /\ Len(leads) = 2
    /\ leads[1] = leads[2]
    /\ KeysOf(leads[1]) # {}
    /\ Len(DataRows) = 2

(* C5 *)

\* C5 as stated: every record is flattened before it is written: a value
\* that is a nested mapping gives one column per leaf, named by joining the
\* keys with "_", instead of a column of its own.
C5_Flattened ==
    ExportedRecords =>
        \A i \in 1..Len(leads) : \A k \in KeysOf(leads[i]) :
            IsDict(ValueAt(leads[i], k)) =>
                /\ k \notin Range(Header)
                /\ \A leaf \in KeysOf(ValueAt(leads[i], k)) :
                      (k \o "_" \o leaf) \in Range(Header)

(* C6 *)

\* C6 as stated: a run with zero leads still leaves a result file holding
\* the empty-result sentinel, in process_request_file after the search
\* returned [] and in run_search after find_companies_by_icp returned [].
C6_SentinelOnZeroLeads ==
    /\ \A i \in 1..Len(calls) :
          (calls[i].searched /\ calls[i].results = EmptyList) =>
              /\ calls[i].wrote
              /\ \E f \in resultsDir : f.lines = SentinelLines
    /\ (script = "lookalike" /\ run.called /\ run.companies = EmptyList) =>
          /\ run.file.exists
          /\ run.file.lines = SentinelLines

(* C7 *)

\* C7: with entries that are not mappings in a non-empty input, save_to_csv
\* does not raise; either the non-mappings are left out and every mapping
\* gets its row, or every entry is written under the single column raw_data
\* as its JSON text.
C7_NonMappingsTolerated ==
    (script = "csv" /\ csv.called /\ leads # <<>>
        /\ \E i \in 1..Len(leads) : ~IsDict(leads[i])) =>
        /\ ~csv.raised
        /\ csv.file.exists
        /\ \/ /\ Header # <<"raw_data">>
              /\ Len(DataRows) = Len(OnlyDicts(leads))
              /\ \A i \in 1..Len(OnlyDicts(leads)) :
                    DataRows[i] = RowText(Header, OnlyDicts(leads)[i])
           \/ /\ Header = <<"raw_data">>
              /\ Len(DataRows) = Len(leads)
              /\ \A i \in 1..Len(leads) : DataRows[i] = <<JsonDumps(leads[i])>>

C7_Witness ==
    /\ script = "csv" /\ csv.called
    /\ Len(leads) = 2
    /\ ~IsDict(leads[1])
    /\ IsDict(leads[2]) /\ KeysOf(leads[2]) # {}
    /\ Len(DataRows) = 1

(* C8 *)

\* C8 as stated: every value a search call hands back is a list.
C8_SearchYieldsList ==
    /\ \A i \in 1..Len(calls) : calls[i].searched => IsList(calls[i].results)
    /\ IsList(run.companies)
    /\ \A i \in 1..Len(run.found) : IsList(run.found[i])

(* C9 *)

\* C9 as stated: the column set is the union of the records' keys, every
\* data row has one cell per column, and a record lacking a column's key has
\* the empty text there; nothing raises.
C9_UnionColumns ==
    ExportedRecords =>
        /\ ~csv.raised
        /\ Range(Header) = UnionOfKeys
        /\ \A i \in 1..Len(DataRows) :
              /\ Len(DataRows[i]) = Len(Header)
              /\ \A j \in 1..Len(Header) :
                    ~HasKey(leads[i], Header[j]) => DataRows[i][j] = ""

\* C9 amended: that holds whenever some record has a key; when no record has
\* any key the only column is raw_data and every row has that one cell.
C9_UnionColumnsOrRaw ==
    ExportedRecords =>
        /\ ~csv.raised
        /\ Range(Header) = (IF UnionOfKeys # {} THEN UnionOfKeys ELSE {"raw_data"})
        /\ Len(DataRows) = Len(leads)
        /\ \A i \in 1..Len(DataRows) :
              /\ Len(DataRows[i]) = Len(Header)
              /\ \A j \in 1..Len(Header) :
                    (UnionOfKeys # {} /\ ~HasKey(leads[i], Header[j])) => DataRows[i][j] = ""

C9_Witness ==
    /\ ExportedRecords
    /\ Len(leads) = 2
    /\ KeysOf(leads[1]) = {"zip"}
    /\ KeysOf(leads[2]) = {"name"}
    /\ DataRows = <<<<"", "78701">>, <<"Ann", "">>>>

(* C10 *)

MarkKeys == {"processed_at", "result_file", "result_count"}

\* C10: a request file is processed at most once.  For every call: at most
\* one call ever both searches and writes a result file; a call that ends
\* done keeps every key (and, but for the three marks, every value) of the
\* request and adds processed_at, result_file and result_count = the number
\* of leads; a call on a marked file searches nothing and changes nothing;
\* a call that returns early changes nothing.
C10_Step ==
    (calls' # calls) =>
        LET c      == calls'[Len(calls')]
            before == requestFile.content
            after  == requestFile'.content
        IN  /\ Cardinality({i \in 1..Len(calls') : calls'[i].searched /\ calls'[i].wrote}) <= 1
            /\ c.outcome = "done" =>
                  /\ KeysOf(after) = KeysOf(before) \cup MarkKeys
                  /\ \A k \in KeysOf(before) \ MarkKeys : ValueAt(after, k) = ValueAt(before, k)
                  /\ ValueAt(after, "result_count") = IntValue(PyLen(c.results))
                  /\ \E f \in resultsDir' : ValueAt(after, "result_file") = StrValue(f.path)
                  /\ "processed_at" \notin KeysOf(before)
            /\ (requestFile.exists /\ "processed_at" \in KeysOf(before)) =>
                  /\ ~c.searched /\ ~c.wrote /\ ~c.marked
                  /\ requestFile' = requestFile
                  /\ resultsDir' = resultsDir
            /\ c.outcome \in {"not_found", "template", "unknown_source"} =>
                  /\ ~c.searched /\ ~c.wrote /\ ~c.marked
                  /\ requestFile' = requestFile
                  /\ resultsDir' = resultsDir

C10_ProcessedAtMostOnce == [][C10_Step]_vars

C10_Witness ==
    /\ script = "request"
    /\ Len(calls) = 3
    /\ calls[1].outcome = "raised"
    /\ calls[2].outcome = "done"
    /\ calls[3].outcome = "already_processed"
    /\ Cardinality(resultsDir) = 1

=============================================================================
